---- MODULE Spec2Model ----
(***************************************************************************)
(* Model of the Numerauto daemon (numerauto/numerauto.py) together with    *)
(* the dataset change detector (numerauto/utils.py).                       *)
(*                                                                         *)
(* The daemon is a single sequential process; its position is pc.  The     *)
(* environment consists of the remote service (current round number and    *)
(* the dataset it serves), the local file system (dataset directories and  *)
(* state.pickle), the event handlers (each hook either returns or raises), *)
(* the interrupt signal and process restarts.                              *)
(***************************************************************************)
EXTENDS Integers, Sequences, FiniteSets, TLC

\* ------------------------------------------------------------------------
\* Bounds
\* ------------------------------------------------------------------------
\* Highest round number the service reaches.
MaxRound == 2
\* Number of add_event_handler calls before run().
MaxHandlers == 2
\* Last second of the clock.
MaxTime == 900

\* ------------------------------------------------------------------------
\* Configuration (the defaults of Numerauto.__init__)
\* ------------------------------------------------------------------------
\* config['check_validation_data']
check_validation_data == TRUE
\* config['wakeup_time']
wakeup_time == 360
\* config['round_wait_interval']
round_wait_interval == 60

\* ------------------------------------------------------------------------
\* Values
\* ------------------------------------------------------------------------
\* Python None for the integer-valued state fields, round_number and report.
None == 0 - 1
\* A local variable of run() that has not been assigned yet.
Unbound == 0 - 2

Rounds == 1..MaxRound
\* The round after the highest one: the round that opens while the highest
\* round is being processed.
LastRound == MaxRound + 1
\* Names of the handlers the script registers, the k-th call of
\* add_event_handler registering a handler with the k-th name.
HandlerNames == << "A", "B", "C", "D" >>

\* ------------------------------------------------------------------------
\* Datasets.  A file is a sequence of rows [id, data_type, v]; a dataset is
\* a training file and a tournament file (validation and live rows).
\* ------------------------------------------------------------------------
Row(i, t, v) == [id |-> i, data_type |-> t, v |-> v]

TrainBase     == << Row(1, "train", 0), Row(2, "train", 1) >>
TrainPermuted == << Row(2, "train", 1), Row(1, "train", 0) >>
TrainCell     == << Row(1, "train", 0), Row(2, "train", 2) >>

Tourn(val, live) == << Row(4, "validation", val), Row(5, "live", live) >>

\* The datasets the service may publish for a round.
Catalogue ==
    << [train |-> TrainBase,     tourn |-> Tourn(0, 0)],
       [train |-> TrainPermuted, tourn |-> <<Row(5, "live", 1), Row(4, "validation", 0)>>],
       [train |-> TrainCell,     tourn |-> Tourn(0, 2)],
       [train |-> TrainBase,     tourn |-> Tourn(1, 3)] >>

DataIds == 1..Len(Catalogue)
\* Content of a dataset directory: 0 when the directory does not exist.
Missing == 0

\* A file on disk as seen by os.path.isfile / pandas.read_csv.
NoFile == [present |-> FALSE, rows |-> <<>>]
File(rows) == [present |-> TRUE, rows |-> rows]

\* ------------------------------------------------------------------------
\* utils.check_dataset
\* ------------------------------------------------------------------------
\* dataset[dataset['data_type'] == data_type]
FilterType(rows, data_type) ==
    IF data_type = "" THEN rows
    ELSE SelectSeq(rows, LAMBDA r : r.data_type = data_type)

\* Insert row r into the id-sorted sequence s.
RECURSIVE InsertById(_, _)
InsertById(r, s) ==
    IF s = <<>> THEN <<r>>
    ELSE IF r.id < Head(s).id THEN <<r>> \o s
    ELSE <<Head(s)>> \o InsertById(r, Tail(s))

Unsorted(rows) == rows

\* dataset.index = dataset.id; dataset.sort_index()
RECURSIVE SortIndex(_)
SortIndex(rows) ==
    IF rows = <<>> THEN <<>>
    ELSE InsertById(Head(rows), SortIndex(Tail(rows)))

\* A detector that compares the numbers of rows only.
CountOnly(old, new, data_type) ==
    IF ~new.present THEN FALSE
    ELSE IF ~old.present THEN TRUE
    ELSE Len(FilterType(old.rows, data_type))
            # Len(FilterType(new.rows, data_type))

\* A detector that looks at the old file first.
OldFileFirst(old, new, data_type) ==
    IF ~old.present THEN TRUE
    ELSE IF ~new.present THEN FALSE
    ELSE LET o == FilterType(old.rows, data_type)
             n == FilterType(new.rows, data_type)
         IN  IF Len(o) # Len(n) THEN TRUE
             ELSE SortIndex(n) # SortIndex(o)

\* check_dataset(filename_old, filename_new, data_type): TRUE iff the new
\* dataset is reported as different from the old one.
check_dataset(old, new, data_type) ==
    IF ~new.present THEN FALSE
    ELSE IF ~old.present THEN TRUE
    ELSE LET o == FilterType(old.rows, data_type)
             n == FilterType(new.rows, data_type)
         IN  IF Len(o) # Len(n) THEN TRUE
             ELSE SortIndex(n) # SortIndex(o)

\* ------------------------------------------------------------------------
\* State
\* ------------------------------------------------------------------------
VARIABLES
    pc,                    \* position of the daemon process
    event_handlers,        \* Numerauto.event_handlers (names, in list order)
    persistent_state,      \* Numerauto.persistent_state
    round_number,          \* Numerauto.round_number
    report,                \* Numerauto.report (None or the round it is for)
    single_run,            \* argument of run()
    round_info,            \* local round_info of run() (its 'number')
    hi,                    \* index of the dispatch loop "for h in event_handlers"
    valid,                 \* local valid of _run_new_round
    ret,                   \* caller of _run_new_round: "catchup" or "loop"
    w_number,              \* wait_till_next_round: round_info['number']
    w_new,                 \* wait_till_next_round: new_round_info['number']
    disk,                  \* content of state.pickle
    files,                 \* dataset directories: round -> catalogue id or Missing
    api_round,             \* round number the service reports
    api_data,              \* dataset the service serves
    api_stale,             \* the service has not yet published the round's data
    registered,            \* history: handlers in the order of registration
    events,                \* history: hook calls and saves of the current pass
    last_write,            \* history: which save_state wrote the disk last
    verdict,               \* history: result of _check_new_training_data
    pass_lrt,              \* history: last_round_trained when the pass began
    prev_crash,            \* history: round whose tournament phase crashed
    trained_open,          \* history: round marked trained, not yet processed
    open_round,            \* history: round begun in this run, not cleaned up
    fail,                  \* history: why run() ended with an exception
    interrupted,           \* history: a signal ended the try block of run()
    max_wait_exceeded,     \* history: the single run broke at single_run_max_wait
    q_pc,                  \* position of a call of the remote client
    operation,             \* "raw_query" or "upload_predictions"
    authorization,         \* argument authorization of raw_query
    token,                 \* RobustNumerAPI.token is set
    napi_wait_schedule,    \* config['napi_wait_schedule']
    attempt_number,        \* local attempt_number of the retry loop
    requests_sent,         \* history: requests sent by the current call
    waited,                \* history: waits of the current call, in order
    outcome,               \* history: how the last attempt ended
    raised,                \* history: exception that ended the call
    now,                   \* the clock (seconds)
    api_close,             \* closeTime of the round the service reports
    w_close,               \* wait_till_next_round: new_round_info['closeTime']
    dt_round_close,        \* wait_till_next_round: dt_round_close
    dt_round_close_atstart, \* wait_till_next_round: dt_round_close_atstart
    seconds_wait,          \* wait_till_next_round: seconds_wait
    delay_logged,          \* history: this iteration logged a changed closeTime
    c_pc,                  \* position of a call of check_dataset
    filename_old,          \* check_dataset: the file at filename_old
    filename_new,          \* check_dataset: the file at filename_new
    type_arg,              \* check_dataset: data_type ("" for None)
    changed,               \* check_dataset: the value returned
    s_pc,                  \* position of the calls of load_state, save_state
    state_pickle,          \* state.pickle: missing, empty or a pickled dict
    registry_call          \* history: the last call on the handler list

\* The variables of the daemon.
daemon == << pc, event_handlers, persistent_state, round_number, report,
             single_run, round_info, hi, valid, ret, w_number, w_new, disk,
             files, api_round, api_data, api_stale, registered, events,
             last_write, verdict, pass_lrt, prev_crash, trained_open,
             open_round, fail, interrupted, max_wait_exceeded >>

\* The variables of a call of the remote client.
client == << q_pc, operation, authorization, token, napi_wait_schedule,
             attempt_number, requests_sent, waited, outcome, raised >>

vars == << pc, event_handlers, persistent_state, round_number, report,
           single_run, round_info, hi, valid, ret, w_number, w_new, disk,
           files, api_round, api_data, api_stale, registered, events,
           last_write, verdict, pass_lrt, prev_crash, trained_open,
           open_round, fail, interrupted, max_wait_exceeded, q_pc,
           operation, authorization, token,
           napi_wait_schedule, attempt_number, requests_sent, waited,
           outcome, raised, now, api_close, w_close, dt_round_close,
           dt_round_close_atstart, seconds_wait, delay_logged, c_pc,
           filename_old, filename_new, type_arg, changed, s_pc,
           state_pickle, registry_call >>

\* The clock, the closing time the service reports and the local variables
\* of wait_till_next_round that hold times.
watcher == << now, api_close, w_close, dt_round_close,
              dt_round_close_atstart, seconds_wait, delay_logged >>

\* A call of check_dataset.
detector == << c_pc, filename_old, filename_new, type_arg, changed >>

\* The calls of load_state and save_state on any content of state.pickle.
store == << s_pc, state_pickle >>

\* The calls that build the list of handlers.
registry == << registry_call >>

\* The variables of the specifications of single components.
components == << watcher, detector, store, registry >>

\* Attributes of the Numerauto object.
proc   == << persistent_state, round_number, report >>
\* Local variables of run(), _run_new_round and wait_till_next_round.
locals == << round_info, hi, valid, ret, w_number, w_new >>
\* The remote service.
svc    == << api_round, api_data, api_stale >>
\* What is fixed when run() starts.
cfg    == << event_handlers, registered, single_run >>
\* History of the current processing pass.
pass   == << events, verdict, pass_lrt >>
\* History that outlives a pass.
hist   == << last_write, prev_crash, trained_open, open_round, fail,
            interrupted, max_wait_exceeded >>

\* persistent_state before load_state has run.
NotLoaded == [last_round_processed |-> Unbound, last_round_trained |-> Unbound]
\* The state load_state builds when state.pickle is missing or empty.
DefaultState == [last_round_processed |-> None, last_round_trained |-> None]
NoStateFile == [present |-> FALSE, last_round_processed |-> None,
                last_round_trained |-> None]

\* pickle.dump(self.persistent_state, fp)
Pickled(ps) == [present |-> TRUE,
                last_round_processed |-> ps.last_round_processed,
                last_round_trained |-> ps.last_round_trained]

\* state.pickle as load_state may find it: missing, empty, or the pickle
\* of a dictionary with any of the two fields.
StateFields == { "last_round_processed", "last_round_trained" }
NoPickle == [kind |-> "missing", dict |-> <<>>]
EmptyPickle == [kind |-> "empty", dict |-> <<>>]
Dumped(dict) == [kind |-> "pickle", dict |-> dict]

LoadedDefault(file) == DefaultState

\* load_state: the dictionary of the file, or {} when the file is missing
\* (FileNotFoundError) or empty (EOFError), with the two fields set to
\* None where they are missing.
Loaded(file) ==
    LET dict == IF file.kind = "pickle" THEN file.dict ELSE <<>>
    IN  [f \in StateFields |-> IF f \in DOMAIN dict THEN dict[f] ELSE None]

\* An entry of the history of hook calls.
HookCall(ev, i, n, r) == [ev |-> ev, h |-> i, name |-> n, rnd |-> r]
SaveMark(r) == [ev |-> "save_state", h |-> 0, name |-> "", rnd |-> r]

\* The Numerauto object after __init__.
Constructed ==
    /\ pc = "setup"
    /\ event_handlers = <<>>
    /\ persistent_state = NotLoaded
    /\ round_number = None
    /\ report = None
    /\ single_run = FALSE
    /\ round_info = Unbound
    /\ hi = 1
    /\ valid = FALSE
    /\ ret = "none"
    /\ w_number = None
    /\ w_new = None
    /\ disk = NoStateFile
    /\ files = [r \in 0..LastRound |-> Missing]
    /\ api_round = 1
    /\ api_data = 1
    /\ api_stale = FALSE
    /\ registered = <<>>
    /\ events = <<>>
    /\ last_write = "none"
    /\ verdict = "none"
    /\ pass_lrt = None
    /\ prev_crash = None
    /\ trained_open = None
    /\ open_round = None
    /\ fail = "none"
    /\ interrupted = FALSE
    /\ max_wait_exceeded = FALSE

\* numerauto.py: 'napi_wait_schedule' of the default configuration.
DefaultSchedule == << 60, 60, 60, 60, 60, 600, 600, 600, 3600, 3600, 3600 >>

\* No call of the remote client is in progress.
NoCall ==
    /\ q_pc = "idle"
    /\ operation = "none"
    /\ authorization = FALSE
    /\ attempt_number = 0
    /\ requests_sent = 0
    /\ waited = <<>>
    /\ outcome = "none"
    /\ raised = "none"

\* wait_till_next_round is not running, or is taken as one step per
\* statement without its times.
NoWatch ==
    /\ now = 0
    /\ api_close = 0
    /\ w_close = None
    /\ dt_round_close = None
    /\ dt_round_close_atstart = None
    /\ seconds_wait = 0
    /\ delay_logged = FALSE

\* No call of check_dataset is followed statement by statement.
NoCheck ==
    /\ c_pc = "idle"
    /\ filename_old = NoFile
    /\ filename_new = NoFile
    /\ type_arg = ""
    /\ changed = FALSE

\* load_state and save_state are steps of the daemon on its state file.
NoStore ==
    /\ s_pc = "idle"
    /\ state_pickle = NoPickle

\* A call on the list of handlers: the method and the name of the handler.
RegistryCall(op, name) == [op |-> op, name |-> name]

\* The handlers are registered by add_event_handler before run() only.
NoRegistry == registry_call = RegistryCall("none", "")

\* The daemon with its configuration defaults; the calls of its remote
\* client are the atomic queries of the daemon's steps.
Init ==
    /\ Constructed
    /\ NoCall
    /\ token = FALSE
    /\ napi_wait_schedule = DefaultSchedule
    /\ NoWatch
    /\ NoCheck
    /\ NoStore
    /\ NoRegistry

\* The frames of run() and of the functions it called are left: their local
\* variables are gone.
LocalsGone ==
    /\ round_info' = Unbound
    /\ hi' = 1
    /\ valid' = FALSE
    /\ ret' = "none"
    /\ w_number' = None
    /\ w_new' = None

\* The processing pass is over or abandoned.
PassOver ==
    /\ events' = <<>>
    /\ verdict' = "none"
    /\ pass_lrt' = None

\* The process has ended: its memory is gone.
ProcessGone ==
    /\ persistent_state' = NotLoaded
    /\ round_number' = None
    /\ report' = None
    /\ single_run' = FALSE
    /\ LocalsGone
    /\ PassOver

\* ------------------------------------------------------------------------
\* Registration
\* ------------------------------------------------------------------------
PrependHandler(handlers, h) == <<h>> \o handlers

\* self.event_handlers.append(handler)
AppendHandler(handlers, h) == Append(handlers, h)

add_event_handler ==
    /\ pc = "setup"
    /\ Len(registered) < MaxHandlers
    /\ LET h == HandlerNames[Len(registered) + 1]
       IN  /\ event_handlers' = AppendHandler(event_handlers, h)
           /\ registered' = Append(registered, h)
    /\ UNCHANGED << pc, proc, locals, single_run, disk, files, svc, client,
                    components, pass, hist >>

\* ------------------------------------------------------------------------
\* run(): start, load_state
\* ------------------------------------------------------------------------
\* A fresh process calls run(single_run).
StartRun(single) ==
    /\ pc' = "load_state"
    /\ single_run' = single
    /\ persistent_state' = NotLoaded
    /\ round_number' = None
    /\ report' = None
    /\ LocalsGone
    /\ PassOver
    /\ open_round' = None
    /\ fail' = "none"
    /\ interrupted' = FALSE
    /\ max_wait_exceeded' = FALSE
    /\ UNCHANGED << event_handlers, registered, disk, files, svc, client,
                    components, last_write, prev_crash, trained_open >>

run ==
    /\ pc = "setup"
    /\ \E single \in BOOLEAN : StartRun(single)

\* The process has ended (normally or by an exception) and is started again
\* with the same handlers registered.
Restart ==
    /\ pc \in {"done", "failed"}
    /\ \E single \in BOOLEAN : StartRun(single)

\* A load_state that does not read state.pickle.
LoadStateIgnoresFile ==
    /\ pc = "load_state"
    /\ persistent_state' = DefaultState
    /\ pc' = "on_start"
    /\ UNCHANGED << round_number, report, locals, cfg, disk, files, svc,
                    client, components, pass, hist >>

\* load_state()
load_state ==
    /\ pc = "load_state"
    /\ persistent_state' =
          IF disk.present
          THEN [last_round_processed |-> disk.last_round_processed,
                last_round_trained |-> disk.last_round_trained]
          ELSE DefaultState
    /\ pc' = "on_start"
    /\ UNCHANGED << round_number, report, locals, cfg, disk, files, svc,
                    client, components, pass, hist >>

\* ------------------------------------------------------------------------
\* Leaving the try block of run()
\* ------------------------------------------------------------------------
\* An exception that run() does not catch: the process ends without
\* on_shutdown and without the final save_state.
Raise(cause) ==
    /\ pc' = "failed"
    /\ fail' = cause
    /\ interrupted' = FALSE
    /\ max_wait_exceeded' = FALSE
    /\ prev_crash' = IF pc = "on_new_tournament_data"
                        /\ disk.present
                        /\ disk.last_round_trained = round_number
                     THEN round_number
                     ELSE None
    /\ ProcessGone
    /\ UNCHANGED << event_handlers, registered, disk, files, svc, client,
                    components, last_write, trained_open, open_round >>

\* "break" or "except InterruptedException": on to self._on_shutdown().
ToShutdown(by_signal) ==
    /\ pc' = "on_shutdown"
    /\ interrupted' = by_signal
    /\ LocalsGone
    /\ PassOver
    /\ UNCHANGED << proc, cfg, disk, files, svc, client, components,
                    last_write, prev_crash, trained_open, open_round, fail >>

\* ------------------------------------------------------------------------
\* Event dispatch: _on_start, _on_shutdown, _on_round_begin,
\* _on_new_training_data, _on_new_tournament_data, _on_cleanup
\* ------------------------------------------------------------------------
ReversedHandlerAt(handlers, i) == handlers[Len(handlers) + 1 - i]

\* The i-th handler visited by "for h in self.event_handlers".
HandlerAt(handlers, i) == handlers[i]

PhaseAfterNoCleanup(event) ==
    CASE event = "on_start"               -> "get_round"
      [] event = "on_round_begin"         -> "check_training"
      [] event = "on_new_training_data"   -> "mark_trained"
      [] event = "on_new_tournament_data" -> "end_round"
      [] event = "on_cleanup"             -> "end_round"
      [] event = "on_shutdown"            -> "final_save"

PhaseAfterLateSave(event) ==
    CASE event = "on_start"               -> "get_round"
      [] event = "on_round_begin"         -> "check_training"
      [] event = "on_new_training_data"   -> "on_new_tournament_data"
      [] event = "on_new_tournament_data" -> "mark_trained"
      [] event = "on_cleanup"             -> "end_round"
      [] event = "on_shutdown"            -> "final_save"

\* What the daemon does after the last handler has returned from an event.
PhaseAfter(event) ==
    CASE event = "on_start"               -> "get_round"
      [] event = "on_round_begin"         -> "check_training"
      [] event = "on_new_training_data"   -> "mark_trained"
      [] event = "on_new_tournament_data" -> "on_cleanup"
      [] event = "on_cleanup"             -> "end_round"
      [] event = "on_shutdown"            -> "final_save"

\* A dispatch loop that catches what a hook raises and goes on with the
\* next handler.
DispatchSwallows(event, arg) ==
    /\ pc = event
    /\ IF hi <= Len(event_handlers)
       THEN /\ pc' = event
            /\ hi' = hi + 1
            /\ \E raises \in BOOLEAN :
                  /\ fail' = IF raises THEN "handler" ELSE fail
                  /\ events' = IF raises THEN events
                               ELSE Append(events,
                                       HookCall(event, hi,
                                                HandlerAt(event_handlers, hi),
                                                arg))
            /\ open_round' = IF event = "on_round_begin"
                             THEN arg ELSE open_round
            /\ UNCHANGED << proc, round_info, valid, ret, w_number, w_new,
                            cfg, disk, files, svc, client, components,
                            verdict, pass_lrt, last_write, prev_crash,
                            trained_open, interrupted, max_wait_exceeded >>
       ELSE /\ pc' = PhaseAfter(event)
            /\ hi' = 1
            /\ open_round' = IF event = "on_round_begin" THEN arg
                             ELSE IF event = "on_cleanup" THEN None
                             ELSE open_round
            /\ UNCHANGED << proc, round_info, valid, ret, w_number, w_new,
                            cfg, disk, files, svc, client, components, pass,
                            last_write, prev_crash, trained_open, fail,
                            interrupted, max_wait_exceeded >>

\* One step of the loop "for h in self.event_handlers: h.<event>(...)":
\* the hook of the next handler is called and returns or raises; after the
\* last handler the daemon goes on with PhaseAfter(event).
Dispatch(event, arg) ==
    /\ pc = event
    /\ IF hi <= Len(event_handlers)
       THEN \E raises \in BOOLEAN :
               IF raises
               THEN Raise("handler")
               ELSE /\ pc' = event
                    /\ hi' = hi + 1
                    /\ events' = Append(events,
                          HookCall(event, hi, HandlerAt(event_handlers, hi),
                                   arg))
                    /\ open_round' = IF event = "on_round_begin"
                                     THEN arg ELSE open_round
                    /\ UNCHANGED << proc, round_info, valid, ret, w_number,
                                    w_new, cfg, disk, files, svc, client,
                                    components, verdict, pass_lrt, last_write,
                                    prev_crash, trained_open, fail,
                                    interrupted, max_wait_exceeded >>
       ELSE /\ pc' = PhaseAfter(event)
            /\ hi' = 1
            /\ open_round' = IF event = "on_round_begin" THEN arg
                             ELSE IF event = "on_cleanup" THEN None
                             ELSE open_round
            /\ UNCHANGED << proc, round_info, valid, ret, w_number, w_new, cfg,
                            disk, files, svc, client, components, pass,
                            last_write, prev_crash, trained_open, fail,
                            interrupted, max_wait_exceeded >>

_on_start == Dispatch("on_start", None)

_on_round_begin == Dispatch("on_round_begin", round_number)

_on_new_training_data ==
    Dispatch("on_new_training_data", round_number)

_on_new_tournament_data ==
    Dispatch("on_new_tournament_data", round_number)

_on_cleanup == Dispatch("on_cleanup", round_number)

_on_shutdown == Dispatch("on_shutdown", None)

\* ------------------------------------------------------------------------
\* run(): catch-up and daemon loop
\* ------------------------------------------------------------------------
CatchUpNotOlder(ps, rn) ==
    \/ ps.last_round_processed = None
    \/ ps.last_round_trained = None
    \/ rn >= ps.last_round_processed

\* The condition under which run() processes the current round before the
\* loop.
CatchUpNeeded(ps, rn) ==
    \/ ps.last_round_processed = None
    \/ ps.last_round_trained = None
    \/ rn > ps.last_round_processed

\* self.round_number = get_current_round(); if ...: self._run_new_round()
run_catch_up ==
    /\ pc = "get_round"
    /\ round_number' = api_round
    /\ IF CatchUpNeeded(persistent_state, api_round)
       THEN /\ pc' = "download"
            /\ ret' = "catchup"
       ELSE /\ pc' = "loop_top"
            /\ ret' = ret
    /\ UNCHANGED << persistent_state, report, round_info, hi, valid, w_number,
                    w_new, cfg, disk, files, svc, client, components, pass,
                    hist >>

\* Top of "while True": read the current round and compare it with
\* last_round_processed.
run_loop_top ==
    /\ pc = "loop_top"
    /\ round_number' = api_round
    /\ pc' = IF api_round = persistent_state.last_round_processed
             THEN (IF single_run THEN "single_check" ELSE "w_start")
             ELSE "assign"
    /\ UNCHANGED << persistent_state, report, locals, cfg, disk, files, svc,
                    client, components, pass, hist >>

\* A single run that waits for the next round however far away it is.
SingleCheckNeverBreaks ==
    /\ pc = "single_check"
    /\ \E far \in BOOLEAN : max_wait_exceeded' = far
    /\ pc' = "w_start"
    /\ round_info' = api_round
    /\ UNCHANGED << proc, hi, valid, ret, w_number, w_new, cfg, disk, files,
                    svc, client, components, pass, last_write, prev_crash,
                    trained_open, open_round, fail, interrupted >>

\* single_run: fetch the round details and stop when the round closes more
\* than single_run_max_wait seconds from now.
run_single_check ==
    /\ pc = "single_check"
    /\ \E far \in BOOLEAN :
          IF far
          THEN /\ ToShutdown(FALSE)
               /\ max_wait_exceeded' = TRUE
          ELSE /\ pc' = "w_start"
               /\ round_info' = api_round
               /\ UNCHANGED << proc, hi, valid, ret, w_number, w_new, cfg,
                               disk, files, svc, client, components, pass,
                               hist >>

\* The round the daemon goes on to process after the comparison at the top
\* of the loop: info is round_info['number'], read the number just read.
AssignedRoundNumber(info, read) == info

\* self.round_number = round_info['number']; self._run_new_round()
run_assign ==
    /\ pc = "assign"
    /\ IF round_info = Unbound
       THEN Raise("UnboundLocalError")
       ELSE /\ round_number' = AssignedRoundNumber(round_info, round_number)
            /\ pc' = "download"
            /\ ret' = "loop"
            /\ UNCHANGED << persistent_state, report, round_info, hi, valid,
                            w_number, w_new, cfg, disk, files, svc, client,
                            components, pass, hist >>

\* A loop that stops after every pass, whatever single_run is.
AfterPassAlwaysBreaks ==
    /\ pc = "after_pass"
    /\ ToShutdown(FALSE)
    /\ max_wait_exceeded' = FALSE

\* After _run_new_round() in the loop: "if single_run: break".
run_after_pass ==
    /\ pc = "after_pass"
    /\ IF single_run
       THEN ToShutdown(FALSE) /\ max_wait_exceeded' = FALSE
       ELSE /\ pc' = "loop_top"
            /\ UNCHANGED << proc, locals, cfg, disk, files, svc, client,
                            components, pass, hist >>

\* The final self.save_state() of run().
run_final_save ==
    /\ pc = "final_save"
    /\ disk' = Pickled(persistent_state)
    /\ last_write' = "shutdown"
    /\ prev_crash' = None
    /\ pc' = "done"
    /\ interrupted' = FALSE
    /\ max_wait_exceeded' = FALSE
    /\ ProcessGone
    /\ UNCHANGED << event_handlers, registered, files, svc, client, components,
                    trained_open, open_round, fail >>

\* ------------------------------------------------------------------------
\* wait_till_next_round
\* ------------------------------------------------------------------------
wait_start ==
    /\ pc = "w_start"
    /\ w_number' = api_round
    /\ w_new' = api_round
    /\ pc' = "w_loop"
    /\ UNCHANGED << proc, round_info, hi, valid, ret, cfg, disk, files, svc,
                    client, components, pass, hist >>

\* while new_round_info['number'] == round_info['number']: ...
\* return new_round_info
wait_loop ==
    /\ pc = "w_loop"
    /\ IF w_new = w_number
       THEN /\ pc' = "w_wait"
            /\ UNCHANGED << round_info, w_number, w_new >>
       ELSE /\ pc' = "assign"
            /\ round_info' = w_new
            /\ w_number' = None
            /\ w_new' = None
    /\ UNCHANGED << proc, hi, valid, ret, cfg, disk, files, svc, client,
                    components, pass, hist >>

\* wait_until(...) or wait(...)
wait_sleep ==
    /\ pc = "w_wait"
    /\ pc' = "w_poll"
    /\ UNCHANGED << proc, locals, cfg, disk, files, svc, client, components,
                    pass, hist >>

\* new_round_info = get_current_round_details()
wait_poll ==
    /\ pc = "w_poll"
    /\ w_new' = api_round
    /\ pc' = "w_loop"
    /\ UNCHANGED << proc, round_info, hi, valid, ret, w_number, cfg, disk,
                    files, svc, client, components, pass, hist >>

\* ------------------------------------------------------------------------
\* _run_new_round, _download_and_check
\* ------------------------------------------------------------------------
TournFile(fs, r) ==
    IF fs[r] = Missing THEN NoFile ELSE File(Catalogue[fs[r]].tourn)

TrainFile(fs, r) ==
    IF fs[r] = Missing THEN NoFile ELSE File(Catalogue[fs[r]].train)

\* napi.download_current_dataset(dest_path, unzip=True): the dataset the
\* service serves is stored under the round number it reports, unless that
\* archive exists already.
Downloaded(fs) ==
    [fs EXCEPT ![api_round] = IF @ = Missing THEN api_data ELSE @]

AlwaysValid(fs, rn) == TRUE

\* valid = check_dataset(old, new, data_type='live') on the tournament
\* files of round_number - 1 and round_number.
DatasetValid(fs, rn) ==
    check_dataset(TournFile(fs, rn - 1), TournFile(fs, rn), "live")

\* A _download_and_check without the except clause: the RequestException
\* of the download leaves run().
DownloadPropagates ==
    /\ pc = "download"
    /\ \E request_exception \in BOOLEAN :
          IF request_exception
          THEN Raise("RequestException")
          ELSE LET fs == Downloaded(files)
                   v  == DatasetValid(fs, round_number)
               IN  /\ valid' = v
                   /\ files' = IF v THEN fs
                               ELSE [fs EXCEPT ![api_round] = Missing]
                   /\ pc' = IF v THEN "round_begin_internal"
                            ELSE "invalid_wait"
                   /\ UNCHANGED << proc, round_info, hi, ret, w_number, w_new,
                                   cfg, disk, svc, client, components, pass,
                                   hist >>

\* _download_and_check(): the download succeeds and the dataset is checked
\* (and removed when not valid), or the download raises a RequestException.
_download_and_check ==
    /\ pc = "download"
    /\ \E request_exception \in BOOLEAN :
          IF request_exception
          THEN /\ valid' = FALSE
               /\ files' = files
          ELSE LET fs == Downloaded(files)
                   v  == DatasetValid(fs, round_number)
               IN  /\ valid' = v
                   /\ files' = IF v THEN fs
                               ELSE [fs EXCEPT ![api_round] = Missing]
    /\ pc' = IF valid' THEN "round_begin_internal" ELSE "invalid_wait"
    /\ UNCHANGED << proc, round_info, hi, ret, w_number, w_new, cfg, disk,
                    svc, client, components, pass, hist >>

\* wait(invalid_dataset_waittime) before the next _download_and_check().
invalid_dataset_wait ==
    /\ pc = "invalid_wait"
    /\ pc' = "download"
    /\ UNCHANGED << proc, locals, cfg, disk, files, svc, client, components,
                    pass, hist >>

MarkedProcessedPrevious(ps, rn) == [ps EXCEPT !.last_round_processed = rn - 1]

\* self.persistent_state['last_round_processed'] = self.round_number
MarkedProcessed(ps, rn) == [ps EXCEPT !.last_round_processed = rn]

\* Last steps of _run_new_round: record the round as processed, save, and
\* return to run().
mark_processed ==
    /\ pc = "mark_processed"
    /\ persistent_state' = MarkedProcessed(persistent_state, round_number)
    /\ disk' = Pickled(persistent_state')
    /\ last_write' = "processed"
    /\ trained_open' = None
    /\ pc' = IF ret = "catchup" THEN "loop_top" ELSE "after_pass"
    /\ valid' = FALSE
    /\ ret' = "none"
    /\ PassOver
    /\ prev_crash' = None
    /\ UNCHANGED << round_number, report, round_info, hi, w_number, w_new, cfg,
                    files, svc, client, components, open_round, fail,
                    interrupted, max_wait_exceeded >>

\* ------------------------------------------------------------------------
\* _on_round_begin_internal, _check_new_training_data
\* ------------------------------------------------------------------------
AlwaysNewTrainingData(ps, fs, cvd, rn) == TRUE

\* A check that does not take the training data of a first round as new.
FirstRoundNotNew(ps, fs, cvd, rn) ==
    IF ps.last_round_trained = None THEN FALSE
    ELSE IF cvd /\ check_dataset(TournFile(fs, ps.last_round_trained),
                                 TournFile(fs, rn), "validation")
         THEN TRUE
         ELSE check_dataset(TrainFile(fs, ps.last_round_trained),
                            TrainFile(fs, rn), "")

_check_new_training_data(ps, fs, cvd, rn) ==
    IF ps.last_round_trained = None THEN TRUE
    ELSE IF cvd /\ check_dataset(TournFile(fs, ps.last_round_trained),
                                 TournFile(fs, rn), "validation")
         THEN TRUE
         ELSE check_dataset(TrainFile(fs, ps.last_round_trained),
                            TrainFile(fs, rn), "")

\* _get_tournaments(); self.report = nested_defaultdict(); ...
round_begin_internal ==
    /\ pc = "round_begin_internal"
    /\ report' = round_number
    /\ events' = <<>>
    /\ verdict' = "none"
    /\ pass_lrt' = persistent_state.last_round_trained
    /\ pc' = "on_round_begin"
    /\ UNCHANGED << persistent_state, round_number, locals, cfg, disk,
                    files, svc, client, components, hist >>

\* if self._check_new_training_data(round_number): ...
check_training ==
    /\ pc = "check_training"
    /\ LET new == _check_new_training_data(persistent_state, files,
                                           check_validation_data, round_number)
       IN  /\ verdict' = IF new THEN "new" ELSE "same"
           /\ pc' = IF new THEN "on_new_training_data"
                    ELSE "on_new_tournament_data"
    /\ UNCHANGED << proc, locals, cfg, disk, files, svc, client, components,
                    events, pass_lrt, hist >>

\* self.persistent_state['last_round_trained'] = round_number
MarkedTrained(ps, rn) == [ps EXCEPT !.last_round_trained = rn]

\* Mark the round as trained and save_state() at once.
mark_trained ==
    /\ pc = "mark_trained"
    /\ persistent_state' = MarkedTrained(persistent_state, round_number)
    /\ disk' = Pickled(persistent_state')
    /\ last_write' = "trained"
    /\ trained_open' = round_number
    /\ events' = Append(events, SaveMark(round_number))
    /\ pc' = "on_new_tournament_data"
    /\ UNCHANGED << round_number, report, locals, cfg, files, svc, client,
                    components, verdict, pass_lrt, prev_crash, open_round,
                    fail, interrupted, max_wait_exceeded >>

\* print(self.report); self.report = None
end_round ==
    /\ pc = "end_round"
    /\ report' = None
    /\ pc' = "mark_processed"
    /\ UNCHANGED << persistent_state, round_number, locals, cfg, disk,
                    files, svc, client, components, pass, hist >>

\* ------------------------------------------------------------------------
\* Signals and remote failures
\* ------------------------------------------------------------------------
\* Positions inside the try block of run().
TryPcs == {"get_round", "loop_top", "single_check", "w_start", "w_loop",
           "w_wait", "w_poll", "assign", "download", "invalid_wait",
           "round_begin_internal", "on_round_begin", "check_training",
           "on_new_training_data", "mark_trained", "on_new_tournament_data",
           "on_cleanup", "end_round", "mark_processed", "after_pass"}

\* Positions of run() outside the try block.
OutsideTryPcs == {"load_state", "on_start", "on_shutdown", "final_save"}

\* Positions at which the daemon queries the remote service.
RemotePcs == {"get_round", "loop_top", "single_check", "w_start", "w_poll",
              "download", "round_begin_internal"}

\* A run() without the except clause: a signal always ends it.
SignalAlwaysRaises ==
    /\ pc \in TryPcs \cup OutsideTryPcs
    /\ Raise("InterruptedException")

\* SIGINT/SIGTERM: signal_handler raises InterruptedException, which the
\* except clause of run() catches when raised inside the try block.
signal_handler ==
    /\ pc \in TryPcs \cup OutsideTryPcs
    /\ IF pc \in TryPcs
       THEN ToShutdown(TRUE) /\ max_wait_exceeded' = FALSE
       ELSE Raise("InterruptedException")

\* The remote client gives up: wait_for_retry raises RuntimeError.
napi_exhausted ==
    /\ pc \in RemotePcs
    /\ Raise("RuntimeError")

\* ------------------------------------------------------------------------
\* The remote service
\* ------------------------------------------------------------------------
\* The daemon observes the service only when it queries it, so the changes
\* of the service are taken at the positions where the daemon is about to
\* query it.
\* A new round, not higher than last, opens; its dataset is published at
\* once or later.
ServiceNewRoundUpTo(last) ==
    /\ pc \in RemotePcs
    /\ api_round < last
    /\ api_round' = api_round + 1
    /\ \/ /\ api_stale' = TRUE
          /\ api_data' = api_data
       \/ /\ api_stale' = FALSE
          /\ \E d \in DataIds \ {api_data} : api_data' = d
    /\ UNCHANGED << client, components, pc, proc, locals, cfg, disk, files,
                    pass, hist >>

ServiceNewRound == ServiceNewRoundUpTo(MaxRound)

\* The dataset of the current round is published late.
ServicePublish ==
    /\ pc \in RemotePcs
    /\ api_stale
    /\ api_stale' = FALSE
    /\ \E d \in DataIds \ {api_data} : api_data' = d
    /\ UNCHANGED << client, components, pc, proc, locals, cfg, disk, files,
                    api_round, pass, hist >>

\* ------------------------------------------------------------------------
\* Specification
\* ------------------------------------------------------------------------
Daemon ==
    \/ load_state
    \/ _on_start
    \/ run_catch_up
    \/ run_loop_top
    \/ run_single_check
    \/ run_assign
    \/ run_after_pass
    \/ _on_shutdown
    \/ run_final_save
    \/ wait_start
    \/ wait_loop
    \/ wait_sleep
    \/ wait_poll
    \/ _download_and_check
    \/ invalid_dataset_wait
    \/ round_begin_internal
    \/ _on_round_begin
    \/ check_training
    \/ _on_new_training_data
    \/ mark_trained
    \/ _on_new_tournament_data
    \/ _on_cleanup
    \/ end_round
    \/ mark_processed

Next ==
    \/ add_event_handler
    \/ run
    \/ Restart
    \/ Daemon
    \/ signal_handler
    \/ napi_exhausted
    \/ ServiceNewRound
    \/ ServicePublish

Spec == Init /\ [][Next]_vars

\* The daemon process keeps running: whenever it has a next statement it
\* executes one. Signals, failures of the remote service, new rounds and
\* restarts may or may not happen.
FairSpec == Init /\ [][Next]_vars /\ WF_vars(Daemon)

\* One run of the daemon, followed until the service has opened one more
\* round after the highest: the round the daemon finds current at its
\* start, the round it waits for, and a round that opens while that one is
\* being processed.
ServiceCrossesRound == ServiceNewRoundUpTo(LastRound)

CrossingNext ==
    \/ add_event_handler
    \/ run
    \/ Daemon
    \/ signal_handler
    \/ napi_exhausted
    \/ ServiceCrossesRound
    \/ ServicePublish

CrossingSpec == Init /\ [][CrossingNext]_vars

\* ------------------------------------------------------------------------
\* The remote client: RobustNumerAPI.raw_query, upload_predictions and
\* utils.wait_for_retry
\* ------------------------------------------------------------------------
\* Values of config['napi_wait_schedule']: the default or an override.
ConfigSchedules == { DefaultSchedule, << 5, 10 >> }

\* waiting_schedule of wait_for_retry.
waiting_schedule == << 60, 60, 60, 60, 60, 600, 600, 600, 3600, 3600, 3600 >>

FirstWaitTime(attempt) == waiting_schedule[1]

\* waiting_schedule[attempt_number] (the list is indexed from 0)
WaitTime(attempt) == waiting_schedule[attempt + 1]

ExhaustedEarly(attempt) == attempt + 1 >= Len(waiting_schedule)

\* if attempt_number >= len(waiting_schedule): raise RuntimeError
Exhausted(attempt) == attempt >= Len(waiting_schedule)

EveryErrorRetried(kind) == TRUE

\* "except RequestException": the exceptions of the requests library,
\* among them the HTTPError that r.raise_for_status() raises for a 4xx or
\* 5xx status.
IsRequestException(kind) == kind \in {"ConnectionError", "HTTPError"}

\* How one call of __raw_query_patched can end.
RawQueryOutcomes ==
    IF authorization /\ ~token
    THEN {"NumerAPIAuthorizationError"}
    ELSE {"ok", "ConnectionError", "HTTPError", "NumerAPIError"}

\* How one call of super().upload_predictions can end.
UploadOutcomes == {"ok", "ConnectionError", "HTTPError", "ValueError"}

\* A client with or without API keys, in a process configured with a wait
\* schedule.
ClientInit ==
    /\ Constructed
    /\ NoCall
    /\ token \in BOOLEAN
    /\ napi_wait_schedule \in ConfigSchedules
    /\ NoWatch
    /\ NoCheck
    /\ NoStore
    /\ NoRegistry

\* A remote operation is issued.
call ==
    /\ q_pc \in {"idle", "returned", "raised"}
    /\ q_pc' = "attempt"
    /\ operation' \in {"raw_query", "upload_predictions"}
    /\ authorization' \in BOOLEAN
    /\ attempt_number' = 0
    /\ requests_sent' = 0
    /\ waited' = <<>>
    /\ outcome' = "none"
    /\ raised' = "none"
    /\ UNCHANGED << daemon, components, token, napi_wait_schedule >>

\* One pass of "while True: try: return ... except RequestException":
\* the attempt returns, raises a RequestException (on to wait_for_retry)
\* or raises something else, which leaves the loop.
Attempt(kinds) ==
    /\ q_pc = "attempt"
    /\ \E kind \in kinds :
          /\ outcome' = kind
          /\ requests_sent' = IF kind = "NumerAPIAuthorizationError"
                              THEN requests_sent
                              ELSE requests_sent + 1
          /\ IF kind = "ok"
             THEN q_pc' = "returned" /\ raised' = raised
             ELSE IF IsRequestException(kind)
                  THEN q_pc' = "retry" /\ raised' = raised
                  ELSE q_pc' = "raised" /\ raised' = kind
    /\ UNCHANGED << daemon, components, operation, authorization, token,
                    napi_wait_schedule, attempt_number, waited >>

raw_query ==
    /\ operation = "raw_query"
    /\ Attempt(RawQueryOutcomes)

upload_predictions ==
    /\ operation = "upload_predictions"
    /\ Attempt(UploadOutcomes)

\* wait_for_retry(attempt_number); attempt_number += 1
wait_for_retry ==
    /\ q_pc = "retry"
    /\ IF Exhausted(attempt_number)
       THEN /\ q_pc' = "raised"
            /\ raised' = "RuntimeError"
            /\ UNCHANGED << attempt_number, waited >>
       ELSE /\ q_pc' = "attempt"
            /\ waited' = Append(waited, WaitTime(attempt_number))
            /\ attempt_number' = attempt_number + 1
            /\ raised' = raised
    /\ UNCHANGED << daemon, components, operation, authorization, token,
                    napi_wait_schedule, requests_sent, outcome >>

ClientNext ==
    \/ call
    \/ raw_query
    \/ upload_predictions
    \/ wait_for_retry

ClientSpec == ClientInit /\ [][ClientNext]_vars

\* ------------------------------------------------------------------------
\* wait_till_next_round with its times
\* ------------------------------------------------------------------------
\* In this specification the clock runs: time passes while the daemon
\* sleeps and while it queries the service; the service may move the
\* closing time of the round to a later time, and opens the next round at
\* or after the closing time.
Max(a, b) == IF a >= b THEN a ELSE b
Min(a, b) == IF a <= b THEN a ELSE b

\* Closing times of the round when the daemon starts to wait.
StartCloses == { 100, 500 }
\* Seconds by which the service moves a closing time.
Delays == { 120, 300 }
\* Seconds a query of the service takes.
QueryDurations == { 0, 5 }
\* Seconds between the closing times of two rounds.
RoundLength == { 400 }

NeverWaiting(new_number, number) == FALSE

\* while new_round_info['number'] == round_info['number']
StillWaiting(new_number, number) == new_number = number

StaleRoundClose(new_close, close) == close

\* dt_round_close = dateutil.parser.parse(new_round_info['closeTime'])
RoundClose(new_close, close) == new_close

\* The time at which the sleep of one iteration ends: wait_until(...) of
\* the coarse wait, wait(...) of the fine poll.
WakeTime(t, close, seconds) ==
    IF seconds > wakeup_time
    THEN close - (wakeup_time - 5)
    ELSE t + Min(seconds, round_wait_interval)

\* The daemon has processed round 1 and is about to call
\* wait_till_next_round.
WatcherInit ==
    /\ pc = "w_start"
    /\ event_handlers = <<>>
    /\ persistent_state = [last_round_processed |-> 1,
                           last_round_trained |-> 1]
    /\ round_number = 1
    /\ report = None
    /\ single_run = FALSE
    /\ round_info = Unbound
    /\ hi = 1
    /\ valid = FALSE
    /\ ret = "none"
    /\ w_number = None
    /\ w_new = None
    /\ disk = Pickled(persistent_state)
    /\ files = [r \in 0..LastRound |-> IF r = 1 THEN 1 ELSE Missing]
    /\ api_round = 1
    /\ api_data = 1
    /\ api_stale = FALSE
    /\ registered = <<>>
    /\ events = <<>>
    /\ last_write = "processed"
    /\ verdict = "none"
    /\ pass_lrt = None
    /\ prev_crash = None
    /\ trained_open = None
    /\ open_round = None
    /\ fail = "none"
    /\ interrupted = FALSE
    /\ max_wait_exceeded = FALSE
    /\ NoCall
    /\ token = FALSE
    /\ napi_wait_schedule = DefaultSchedule
    /\ now = 0
    /\ api_close \in StartCloses
    /\ w_close = None
    /\ dt_round_close = None
    /\ dt_round_close_atstart = None
    /\ seconds_wait = 0
    /\ delay_logged = FALSE
    /\ NoCheck
    /\ NoStore
    /\ NoRegistry

\* What wait_till_next_round leaves alone.
outside_watcher == << event_handlers, persistent_state, round_number, report,
                      single_run, hi, valid, ret, disk, files, api_data,
                      api_stale, registered, events, last_write, verdict,
                      pass_lrt, prev_crash, trained_open, open_round, fail,
                      interrupted, max_wait_exceeded, client, detector,
                      store, registry >>

\* round_info = get_current_round_details(); dt_round_close = ...;
\* dt_round_close_atstart = dt_round_close; new_round_info = round_info
watcher_start ==
    /\ pc = "w_start"
    /\ pc' = "w_loop"
    /\ w_number' = api_round
    /\ w_new' = api_round
    /\ w_close' = api_close
    /\ dt_round_close' = api_close
    /\ dt_round_close_atstart' = api_close
    /\ UNCHANGED << outside_watcher, round_info, api_round, now, api_close,
                    seconds_wait, delay_logged >>

\* The loop test and, inside the loop, the statements up to the sleep.
watcher_loop ==
    /\ pc = "w_loop"
    /\ IF StillWaiting(w_new, w_number)
       THEN /\ pc' = "w_wait"
            /\ dt_round_close' = RoundClose(w_close, dt_round_close)
            /\ delay_logged' = (dt_round_close' # dt_round_close_atstart)
            /\ dt_round_close_atstart' = dt_round_close'
            /\ seconds_wait' = (dt_round_close' - now) + 5
            /\ UNCHANGED << round_info, w_number, w_new, w_close >>
       ELSE /\ pc' = "assign"
            /\ round_info' = w_new
            /\ UNCHANGED << w_number, w_new, w_close, dt_round_close,
                            dt_round_close_atstart, seconds_wait,
                            delay_logged >>
    /\ UNCHANGED << outside_watcher, api_round, now, api_close >>

\* wait_until(dt_round_close - (wakeup_time - 5)) or
\* wait(min(seconds_wait, round_wait_interval))
watcher_wait ==
    /\ pc = "w_wait"
    /\ now' = Max(now, WakeTime(now, dt_round_close, seconds_wait))
    /\ now' <= MaxTime
    /\ pc' = "w_poll"
    /\ UNCHANGED << outside_watcher, round_info, w_number, w_new, api_round,
                    api_close, w_close, dt_round_close,
                    dt_round_close_atstart, seconds_wait, delay_logged >>

\* new_round_info = get_current_round_details()
watcher_poll ==
    /\ pc = "w_poll"
    /\ \E d \in QueryDurations :
          /\ now + d <= MaxTime
          /\ now' = now + d
    /\ w_new' = api_round
    /\ w_close' = api_close
    /\ pc' = "w_loop"
    /\ UNCHANGED << outside_watcher, round_info, w_number, api_round,
                    api_close, dt_round_close, dt_round_close_atstart,
                    seconds_wait, delay_logged >>

\* The service moves the closing time of the current round.
ServiceDelaysRound ==
    /\ pc \in {"w_start", "w_loop", "w_wait", "w_poll"}
    /\ now <= api_close
    /\ \E d \in Delays :
          /\ api_close + d <= MaxTime
          /\ api_close' = api_close + d
    /\ UNCHANGED << daemon, client, detector, store, registry, now, w_close,
                    dt_round_close, dt_round_close_atstart, seconds_wait,
                    delay_logged >>

\* The service opens the next round, at the closing time or later.
ServiceOpensRound ==
    /\ pc \in {"w_start", "w_loop", "w_wait", "w_poll"}
    /\ now >= api_close
    /\ api_round <= MaxRound
    /\ api_round' = api_round + 1
    /\ \E d \in RoundLength : api_close' = api_close + d
    /\ UNCHANGED << outside_watcher, pc, round_info, w_number, w_new, now,
                    w_close, dt_round_close, dt_round_close_atstart,
                    seconds_wait, delay_logged >>

WatcherNext ==
    \/ watcher_start
    \/ watcher_loop
    \/ watcher_wait
    \/ watcher_poll
    \/ ServiceDelaysRound
    \/ ServiceOpensRound

WatcherSpec == WatcherInit /\ [][WatcherNext]_vars

\* ------------------------------------------------------------------------
\* check_dataset on its own
\* ------------------------------------------------------------------------
\* The files check_dataset is called with: no file, the files of the
\* catalogue, a tournament file in another row order, one without its
\* validation row, and a file without rows.
DetectorFiles ==
    { NoFile, File(<<>>),
      File(<< Row(5, "live", 0), Row(4, "validation", 0) >>),
      File(<< Row(5, "live", 0) >>) }
    \cup { File(Catalogue[i].train) : i \in DataIds }
    \cup { File(Catalogue[i].tourn) : i \in DataIds }

\* The values of data_type, "" standing for None.
DataTypes == { "", "live", "validation" }

\* check_dataset is called with any two files and any data_type.
DetectorInit ==
    /\ Constructed
    /\ NoCall
    /\ token = FALSE
    /\ napi_wait_schedule = DefaultSchedule
    /\ NoWatch
    /\ c_pc = "called"
    /\ filename_old \in DetectorFiles
    /\ filename_new \in DetectorFiles
    /\ type_arg \in DataTypes
    /\ changed = FALSE
    /\ NoStore
    /\ NoRegistry

\* The call returns.
check_dataset_returns ==
    /\ c_pc = "called"
    /\ c_pc' = "returned"
    /\ changed' = check_dataset(filename_old, filename_new, type_arg)
    /\ UNCHANGED << daemon, client, watcher, store, registry, filename_old,
                    filename_new, type_arg >>

DetectorSpec == DetectorInit /\ [][check_dataset_returns]_vars

\* ------------------------------------------------------------------------
\* load_state and save_state on any state file
\* ------------------------------------------------------------------------
\* Values of a field of a pickled dictionary.
FieldValues == { None } \cup Rounds

\* The dictionaries with some of the two fields.
StoredDicts ==
    UNION { [fs -> FieldValues] : fs \in SUBSET StateFields }

StateFiles == { NoPickle, EmptyPickle } \cup { Dumped(x) : x \in StoredDicts }

\* What the calls on the state file leave alone.
outside_store == << pc, event_handlers, round_number, report, single_run,
                    locals, disk, files, svc, registered, pass, hist, client,
                    watcher, detector, registry >>

\* A process starts on any state file.
StoreInit ==
    /\ Constructed
    /\ NoCall
    /\ token = FALSE
    /\ napi_wait_schedule = DefaultSchedule
    /\ NoWatch
    /\ NoCheck
    /\ s_pc = "start"
    /\ state_pickle \in StateFiles
    /\ NoRegistry

\* load_state()
store_load ==
    /\ s_pc \in {"start", "saved"}
    /\ persistent_state' = Loaded(state_pickle)
    /\ s_pc' = IF s_pc = "start" THEN "loaded" ELSE "reloaded"
    /\ UNCHANGED << outside_store, state_pickle >>

\* self.persistent_state['last_round_trained'] = round_number or
\* self.persistent_state['last_round_processed'] = self.round_number
store_mark ==
    /\ s_pc \in {"loaded", "reloaded"}
    /\ \E f \in StateFields, r \in Rounds :
          persistent_state' = [persistent_state EXCEPT ![f] = r]
    /\ UNCHANGED << outside_store, store >>

\* save_state()
store_save ==
    /\ s_pc \in {"loaded", "reloaded"}
    /\ state_pickle' = Dumped(persistent_state)
    /\ s_pc' = "saved"
    /\ UNCHANGED << outside_store, persistent_state >>

StoreNext ==
    \/ store_load
    \/ store_mark
    \/ store_save

StoreSpec == StoreInit /\ [][StoreNext]_vars

\* ------------------------------------------------------------------------
\* The list of handlers: EventHandler(name), add_event_handler,
\* remove_event_handler
\* ------------------------------------------------------------------------
\* Names the script gives to the handlers it creates.
ScriptNames == { "", "A", "B", "C" }

DropLast(handlers, name) ==
    IF handlers = <<>> THEN handlers
    ELSE SubSeq(handlers, 1, Len(handlers) - 1)

\* [h for h in self.event_handlers if h.name != handler_name]
Without(handlers, name) == SelectSeq(handlers, LAMBDA h : h # name)

\* What the calls on the list of handlers leave alone.
outside_registry == << pc, proc, locals, single_run, disk, files, svc, pass,
                       hist, client, watcher, detector, store >>

RegistryInit ==
    /\ Constructed
    /\ NoCall
    /\ token = FALSE
    /\ napi_wait_schedule = DefaultSchedule
    /\ NoWatch
    /\ NoCheck
    /\ NoStore
    /\ NoRegistry

\* EventHandler('') raises ValueError: there is no handler to add.
EventHandler_raises ==
    /\ pc = "setup"
    /\ registry_call' = RegistryCall("ValueError", "")
    /\ UNCHANGED << outside_registry, event_handlers, registered >>

\* add_event_handler(EventHandler(name))
add_named_handler ==
    /\ pc = "setup"
    /\ Len(registered) <= MaxHandlers
    /\ \E name \in ScriptNames \ { "" } :
          /\ event_handlers' = AppendHandler(event_handlers, name)
          /\ registered' = Append(registered, name)
          /\ registry_call' = RegistryCall("add_event_handler", name)
    /\ UNCHANGED outside_registry

\* remove_event_handler(handler_name)
remove_event_handler ==
    /\ pc = "setup"
    /\ \E name \in ScriptNames :
          /\ event_handlers' = Without(event_handlers, name)
          /\ registry_call' = RegistryCall("remove_event_handler", name)
    /\ UNCHANGED << outside_registry, registered >>

RegistryNext ==
    \/ EventHandler_raises
    \/ add_named_handler
    \/ remove_event_handler

RegistrySpec == RegistryInit /\ [][RegistryNext]_vars

\* ------------------------------------------------------------------------
\* Properties
\* ------------------------------------------------------------------------
Stored(f) == disk.present /\ disk[f] # None

\* Positions of _on_round_begin_internal after the report was created.
DispatchPcs == {"on_round_begin", "check_training", "on_new_training_data",
                "mark_trained", "on_new_tournament_data", "on_cleanup",
                "end_round"}

\* The calls of one event on all registered handlers, in registration order.
Calls(event, r) ==
    [i \in 1..Len(registered) |-> HookCall(event, i, registered[i], r)]

IsHook(e) == e.ev # "save_state"
HookLog == SelectSeq(events, IsHook)

\* The hook calls of a complete dispatch of round r.
RoundCalls(r, trained) ==
    Calls("on_round_begin", r)
    \o (IF trained THEN Calls("on_new_training_data", r) ELSE <<>>)
    \o Calls("on_new_tournament_data", r)
    \o Calls("on_cleanup", r)

IsPrefix(a, b) == Len(a) <= Len(b) /\ a = SubSeq(b, 1, Len(a))

\* C1 (as claimed): after every write of the persistent state, if both
\* fields are set then last_round_trained <= last_round_processed.
C1_Original ==
    (Stored("last_round_trained") /\ Stored("last_round_processed"))
    => disk.last_round_trained <= disk.last_round_processed

\* C1 (amended): after every write of the persistent state with both fields
\* set, last_round_trained <= last_round_processed or last_round_trained is
\* the round that was marked trained and is not yet marked processed; after
\* the write that ends a processing pass last_round_trained <=
\* last_round_processed.
C1_TrainedNotAfterProcessed ==
    (Stored("last_round_trained") /\ Stored("last_round_processed"))
    => /\ \/ disk.last_round_trained <= disk.last_round_processed
          \/ disk.last_round_trained = trained_open
       /\ last_write = "processed"
          => disk.last_round_trained <= disk.last_round_processed

C1_Witness ==
    /\ last_write = "processed"
    /\ Stored("last_round_trained")
    /\ disk.last_round_trained = 2
    /\ disk.last_round_processed = 2

\* C2: when the dispatch of a round whose training data was detected as
\* changed has finished, the hooks called are exactly round_begin,
\* new_training_data, new_tournament_data, cleanup of that round, each on
\* every registered handler once.
C2_FullSequence ==
    (pc \in {"end_round", "mark_processed"} /\ verdict = "new")
    => HookLog = RoundCalls(round_number, TRUE)

C2_Witness ==
    /\ pc = "mark_processed"
    /\ verdict = "new"
    /\ Len(registered) = 2
    /\ Len(HookLog) = 8

\* C3: the hooks are called one handler at a time in the order of
\* registration, and the first handler is called for the next event only
\* after the last registered handler was called for the previous one.
C3_RegistrationOrder ==
    \A k \in 1..Len(HookLog) :
        LET e == HookLog[k]
        IN  /\ e.h \in 1..Len(registered)
            /\ e.name = registered[e.h]
            /\ IF k = 1 THEN e.h = 1
               ELSE LET p == HookLog[k - 1]
                    IN  \/ e.ev = p.ev /\ e.h = p.h + 1
                        \/ e.ev # p.ev /\ p.h = Len(registered) /\ e.h = 1

C3_Witness ==
    /\ Len(registered) = 2
    /\ Len(HookLog) >= 4
    /\ HookLog[1].name = "A" /\ HookLog[2].name = "B"
    /\ HookLog[3].name = "A" /\ HookLog[4].name = "B"
    /\ HookLog[3].ev # HookLog[1].ev

\* Two files hold the same rows of a data type, in any order.
SameRows(a, b, data_type) ==
    LET x == FilterType(a.rows, data_type)
        y == FilterType(b.rows, data_type)
    IN  /\ a.present /\ b.present
        /\ Len(x) = Len(y)
        /\ \A r \in {x[i] : i \in 1..Len(x)} \cup {y[i] : i \in 1..Len(y)} :
              Cardinality({i \in 1..Len(x) : x[i] = r})
              = Cardinality({i \in 1..Len(y) : y[i] = r})

\* The dataset of round r differs from the one of round t in row order only.
OnlyReordered(t, r) ==
    /\ t # None
    /\ SameRows(TrainFile(files, t), TrainFile(files, r), "")
    /\ SameRows(TournFile(files, t), TournFile(files, r), "validation")

\* C4: a round whose training data equals that of last_round_trained up to
\* row order is detected as unchanged, and in a round detected as unchanged
\* no on_new_training_data is called and last_round_trained keeps its
\* value, while round_begin, new_tournament_data and cleanup are called on
\* every handler.
C4_UnchangedSkipsTraining ==
    /\ (pc \in DispatchPcs \ {"on_round_begin", "check_training"}
        /\ OnlyReordered(pass_lrt, round_number))
       => verdict = "same"
    /\ (pc \in DispatchPcs /\ verdict = "same")
       => /\ persistent_state.last_round_trained = pass_lrt
          /\ IsPrefix(HookLog, RoundCalls(round_number, FALSE))
          /\ pc = "end_round" => HookLog = RoundCalls(round_number, FALSE)

C4_Witness ==
    /\ pc = "end_round"
    /\ verdict = "same"
    /\ pass_lrt # round_number
    /\ TrainFile(files, pass_lrt) # TrainFile(files, round_number)
    /\ Len(registered) = 2

\* C5: in a round with new training data, last_round_trained is set to the
\* round and saved after the last on_new_training_data call and before the
\* first on_new_tournament_data call, and not earlier.
C5_SaveBetweenTrainingAndTournament ==
    (pc \in DispatchPcs /\ verdict = "new")
    => LET r == round_number
           before == Calls("on_round_begin", r)
                     \o Calls("on_new_training_data", r)
           full == before \o <<SaveMark(r)>>
                   \o Calls("on_new_tournament_data", r)
                   \o Calls("on_cleanup", r)
           saved == \E i \in 1..Len(events) : events[i] = SaveMark(r)
       IN  /\ IsPrefix(events, full)
           /\ saved <=> persistent_state.last_round_trained = r
           /\ saved <=> (disk.present /\ disk.last_round_trained = r)
           /\ saved <=> Len(events) > Len(before)

C5_Witness ==
    /\ pc = "on_new_tournament_data"
    /\ verdict = "new"
    /\ hi = 2
    /\ Len(registered) = 2
    /\ disk.last_round_trained = round_number
    /\ disk.last_round_processed # None

\* The run left the try block of run() or ended.
Aborted == pc \in {"on_shutdown", "final_save", "done", "failed"}

\* The dispatch of round n has ended with on_cleanup called on every handler.
Cleaned(n) ==
    /\ pc = "end_round"
    /\ round_number = n
    /\ open_round = None
    /\ HookLog = RoundCalls(n, verdict = "new")

C7_Original ==
    [][(/\ pc = "assign"
        /\ round_number # persistent_state.last_round_processed
        /\ pc' # "on_shutdown")
       => (pc' = "download" /\ round_number' = round_number)]_vars

\* C8 (as claimed): the round is processed before the loop exactly when it
\* is newer than last_round_processed or both fields of the state are
\* unset.
C8_Original ==
    [][(pc = "get_round" /\ pc' \in {"download", "loop_top"})
       => LET ps == persistent_state
          IN  (pc' = "download")
              <=> \/ /\ ps.last_round_processed # None
                     /\ api_round > ps.last_round_processed
                  \/ /\ ps.last_round_processed = None
                     /\ ps.last_round_trained = None]_vars

\* C8 (amended): after on_start the daemon processes the reported round
\* once before the loop exactly when last_round_processed is unset,
\* last_round_trained is unset, or the round is newer than
\* last_round_processed; otherwise (in particular when the round equals
\* last_round_processed) it enters the loop without processing.
C8_CatchUpWhenUnsetOrNewer ==
    [][(pc = "get_round" /\ pc' \in {"download", "loop_top"})
       => LET ps == persistent_state
              due == \/ ps.last_round_processed = None
                     \/ ps.last_round_trained = None
                     \/ api_round > ps.last_round_processed
          IN  /\ round_number' = api_round
              /\ due => (pc' = "download" /\ ret' = "catchup")
              /\ ~due => (pc' = "loop_top" /\ events' = events)]_vars

C8_Witness ==
    /\ pc = "download"
    /\ ret = "catchup"
    /\ persistent_state.last_round_processed = None
    /\ persistent_state.last_round_trained = round_number

\* C9: the dispatch of a round starts only after a download that passed the
\* validation; last_round_processed changes on disk only in the step that
\* follows the complete dispatch (every handler's on_cleanup has returned),
\* and that step sets it to the round in memory and on disk.
C9_ProcessedAfterCleanup ==
    [][/\ (pc # "round_begin_internal" /\ pc' = "round_begin_internal")
          => (pc = "download" /\ DatasetValid(files', round_number))
       /\ (disk'.last_round_processed # disk.last_round_processed)
          => pc = "mark_processed"
       /\ (pc = "mark_processed" /\ pc' \in {"loop_top", "after_pass"})
          => /\ HookLog = RoundCalls(round_number, verdict = "new")
             /\ persistent_state'.last_round_processed = round_number
             /\ disk'.present
             /\ disk'.last_round_processed = round_number
             /\ last_write' = "processed"]_vars

C9_Witness ==
    /\ pc = "after_pass"
    /\ last_write = "processed"
    /\ disk.last_round_processed = 2
    /\ round_number = 2
    /\ Len(registered) = 2

\* C10: after a crash in the on_new_tournament_data dispatch of round n,
\* which follows the save of last_round_trained = n, a restarted daemon
\* that finds n still current does not skip the round and calls no
\* on_new_training_data hook for n.
C10_NoSecondTraining ==
    prev_crash # None
    => /\ \A i \in 1..Len(events) :
              ~(events[i].ev = "on_new_training_data"
                /\ events[i].rnd = prev_crash)
       /\ round_number = prev_crash
          => /\ pc \notin {"loop_top", "single_check", "w_start", "w_loop",
                           "w_wait", "w_poll", "assign", "after_pass"}
             /\ pc \in DispatchPcs \ {"on_round_begin", "check_training"}
                => verdict = "same"

C10_Witness ==
    /\ prev_crash # None
    /\ round_number = prev_crash
    /\ pc = "on_cleanup"
    /\ hi = 2
    /\ Len(registered) = 2

\* Sum of the first k entries of a sequence of numbers.
RECURSIVE SumFirst(_, _)
SumFirst(seq, k) == IF k = 0 THEN 0 ELSE SumFirst(seq, k - 1) + seq[k]

\* C11: in a call of raw_query or upload_predictions the i-th consecutive
\* transient failure (counted from 0) is followed by a wait of
\* waiting_schedule[i] and one more attempt of the same operation, so that
\* a call that succeeds after k failures was delayed by the sum of the
\* first k entries of the schedule.
C11_WaitsFollowSchedule ==
    q_pc # "idle"
    => /\ Len(waited) = attempt_number
       /\ attempt_number <= Len(waiting_schedule)
       /\ \A i \in 1..Len(waited) : waited[i] = waiting_schedule[i]
       /\ SumFirst(waited, Len(waited))
          = SumFirst(waiting_schedule, attempt_number)
       /\ q_pc = "attempt" /\ raised = "none"
          => requests_sent = attempt_number
       /\ q_pc \in {"returned", "retry"}
          => requests_sent = attempt_number + 1

C11_Witness ==
    /\ q_pc = "returned"
    /\ attempt_number = 6
    /\ requests_sent = 7
    /\ SumFirst(waited, Len(waited)) = 900

\* C12: a call whose attempts all fail transiently makes
\* Len(waiting_schedule) + 1 attempts, waits Len(waiting_schedule) times
\* (not after the last failed attempt) and ends with a RuntimeError, which
\* is not one of the retried exceptions; no call makes more attempts.
C12_ExhaustionIsFatal ==
    /\ requests_sent <= Len(waiting_schedule) + 1
    /\ Len(waited) <= Len(waiting_schedule)
    /\ raised = "RuntimeError"
       => /\ q_pc = "raised"
          /\ requests_sent = Len(waiting_schedule) + 1
          /\ Len(waited) = Len(waiting_schedule)
          /\ IsRequestException(outcome)
          /\ ~IsRequestException(raised)
    /\ (q_pc = "raised" /\ IsRequestException(outcome))
       => raised = "RuntimeError"

C12_Witness ==
    /\ q_pc = "raised"
    /\ raised = "RuntimeError"
    /\ operation = "raw_query"
    /\ outcome = "ConnectionError"
    /\ Len(waited) = 11

\* C13 (as claimed): an attempt answered with an HTTP 4xx/5xx status ends
\* the call at once with a NumerAPIError, without a wait and without a
\* retry.
C13_Original ==
    outcome = "HTTPError" => (q_pc = "raised" /\ raised = "NumerAPIError")

\* C14: an attempt that fails for missing credentials or with an error
\* payload of the service ends the call with that exception and is
\* followed by no wait and no retry; missing credentials end the call on
\* its first attempt, before a request is sent; a call that ends on its
\* first attempt has waited zero times.
C14_NoRetryOnAuthOrApplicationError ==
    /\ outcome \in {"NumerAPIAuthorizationError", "NumerAPIError"}
       => /\ q_pc = "raised"
          /\ raised = outcome
          /\ Len(waited) = attempt_number
          /\ requests_sent = attempt_number
                             + (IF outcome = "NumerAPIError" THEN 1 ELSE 0)
    /\ outcome = "NumerAPIAuthorizationError"
       => (requests_sent = 0 /\ waited = <<>> /\ attempt_number = 0)
    /\ (outcome = "NumerAPIError" /\ requests_sent = 1) => waited = <<>>
    /\ (q_pc = "attempt" /\ authorization /\ ~token
        /\ operation = "raw_query")
       => attempt_number = 0

C14_Witness ==
    /\ q_pc = "raised"
    /\ raised = "NumerAPIAuthorizationError"
    /\ requests_sent = 0
    /\ waited = <<>>

\* C15 (as claimed): the waits of a call are the entries of
\* config['napi_wait_schedule'] in order, and the call gives up after as
\* many retries as that schedule has entries.
C15_Original ==
    /\ Len(waited) <= Len(napi_wait_schedule)
    /\ \A i \in 1..Len(waited) :
          i <= Len(napi_wait_schedule) => waited[i] = napi_wait_schedule[i]
    /\ raised = "RuntimeError" => Len(waited) = Len(napi_wait_schedule)

\* The live rows of round rn in the directories fs differ from those of
\* round rn - 1.
LiveRowsChanged(fs, rn) ==
    check_dataset(TournFile(fs, rn - 1), TournFile(fs, rn), "live")

\* C16: a download whose live rows are unchanged versus the previous round
\* is not kept; the daemon then waits (invalid_dataset_waittime) and runs
\* the download-and-check step again, any number of times; while it does,
\* no hook of the round is called and neither persistent_state nor
\* state.pickle changes.
C16_InvalidDownloadRetried ==
    /\ [](pc \in {"download", "invalid_wait"}
          => \A i \in 1..Len(events) : events[i].ev = "on_start")
    /\ [][/\ (/\ pc = "download"
              /\ pc' \in {"invalid_wait", "round_begin_internal"}
              /\ ~LiveRowsChanged(Downloaded(files), round_number))
             => /\ pc' = "invalid_wait"
                /\ \A r \in 0..MaxRound :
                      files'[r] # Missing => files'[r] = files[r]
                /\ files'[api_round] = Missing \/ files' = files
          /\ (pc = "invalid_wait" /\ pc' # "on_shutdown")
             => (pc' = "download" /\ files' = files
                 /\ round_number' = round_number)
          /\ (pc \in {"download", "invalid_wait"}
              /\ pc' \in {"download", "invalid_wait"})
             => /\ persistent_state' = persistent_state
                /\ disk' = disk
                /\ events' = events]_vars

C16_Witness ==
    /\ pc = "invalid_wait"
    /\ api_stale
    /\ round_number = api_round
    /\ files[round_number - 1] = api_data
    /\ files[round_number] = Missing

\* C17: when the daemon leaves the try block of run() by a cancellation
\* signal or by the break of a single run, it calls on_shutdown once on
\* every registered handler in registration order, then writes the state a
\* last time and ends; it calls no other hook after on_shutdown.  (A hook
\* of on_shutdown that raises, or a further signal, ends run() at once.)
C17_ShutdownThenFinalSave ==
    /\ [](/\ pc = "on_shutdown"
             => events = SubSeq(Calls("on_shutdown", None), 1, hi - 1)
          /\ pc = "final_save" => events = Calls("on_shutdown", None)
          /\ pc = "done" => (last_write = "shutdown" /\ fail = "none"))
    /\ [][/\ (pc \in TryPcs /\ pc' \notin TryPcs /\ pc' # "failed")
             => (pc' = "on_shutdown" /\ hi' = 1 /\ events' = <<>>)
          /\ pc \in {"on_shutdown", "final_save"}
             => pc' \in {"on_shutdown", "final_save", "done", "failed"}
          /\ (pc \in {"on_shutdown", "final_save"} /\ pc' = "failed")
             => fail' \in {"handler", "InterruptedException"}
          /\ pc' = "done"
             => (pc = "final_save" /\ disk' = Pickled(persistent_state))
         ]_vars
    /\ (pc = "on_shutdown") ~> (pc \in {"done", "failed"})

C17_Witness ==
    /\ pc = "final_save"
    /\ Len(registered) = 2
    /\ events = Calls("on_shutdown", None)
    /\ single_run
    /\ persistent_state.last_round_processed = 2

\* C18: when the remote client gives up inside run() (its retry schedule
\* is exhausted), the daemon goes on to the shutdown: it calls on_shutdown
\* and writes the state a last time before run() ends.
C18_Original ==
    [][(pc \in RemotePcs /\ fail' = "RuntimeError")
          => pc' = "on_shutdown"]_vars

\* Positions at which the daemon sleeps: the sleeps of wait_till_next_round,
\* the wait after an invalid dataset, and the backoff sleep of a query.
WaitPcs == {"w_wait", "invalid_wait"} \cup RemotePcs

\* The state file holds the fields of persistent_state.
StateFileCurrent ==
    /\ disk.last_round_processed = persistent_state.last_round_processed
    /\ disk.last_round_trained = persistent_state.last_round_trained

\* C19: a signal that arrives while the daemon sleeps (waiting for the next
\* round, between two polls, between two attempts of a query, after an
\* invalid dataset) ends the sleep and starts the shutdown: no hook of a
\* round is called any more, and last_round_processed and
\* last_round_trained keep their values, in memory and in the state file.
C19_SignalInWaitShutsDown ==
    /\ [](/\ (pc \in WaitPcs /\ disk.present) => StateFileCurrent
          /\ (pc \in {"on_shutdown", "final_save"} /\ interrupted)
             => /\ \A i \in 1..Len(events) : events[i].ev = "on_shutdown"
                /\ disk.present => StateFileCurrent)
    /\ [][/\ (pc \in WaitPcs /\ pc' = "failed")
             => fail' # "InterruptedException"
          /\ (pc \in WaitPcs /\ interrupted')
             => /\ pc' = "on_shutdown"
                /\ hi' = 1
                /\ events' = <<>>
                /\ persistent_state' = persistent_state
                /\ disk' = disk
          /\ (pc \in {"on_shutdown", "final_save"} /\ interrupted
              /\ pc' \notin {"done", "failed"})
             => /\ pc' \in {"on_shutdown", "final_save"}
                /\ interrupted'
                /\ persistent_state' = persistent_state
                /\ disk' = disk
          /\ (pc = "final_save" /\ interrupted /\ pc' = "done")
             => /\ disk'.last_round_processed
                      = persistent_state.last_round_processed
                /\ disk'.last_round_trained
                      = persistent_state.last_round_trained
         ]_vars

C19_Witness ==
    /\ pc = "final_save"
    /\ interrupted
    /\ Len(registered) >= 1
    /\ events = Calls("on_shutdown", None)
    /\ persistent_state.last_round_processed = None
    /\ round_number = api_round
    /\ files[round_number] = Missing
    /\ api_stale

\* C20: with single_run the loop of run() stops after its first pass (or
\* before it, when the next round is too far away); without single_run the
\* loop is left only by a signal or by an exception.
C20_SingleRunStopsAfterOnePass ==
    /\ [](/\ pc = "single_check" => single_run
          /\ (pc \in {"on_shutdown", "final_save"} /\ ~interrupted)
             => single_run)
    /\ [][/\ (pc = "after_pass" /\ single_run) => pc' = "on_shutdown"
          /\ (pc = "after_pass" /\ ~single_run)
             => (pc' = "loop_top" \/ (pc' = "on_shutdown" /\ interrupted'))
          /\ (pc # "loop_top" /\ pc' = "loop_top")
             => \/ pc = "get_round"
                \/ pc = "mark_processed" /\ ret = "catchup"
                \/ pc = "after_pass" /\ ~single_run
          /\ (pc = "mark_processed" /\ ret = "loop")
             => pc' \in {"after_pass", "on_shutdown", "failed"}
          /\ (pc \in TryPcs /\ pc' = "on_shutdown" /\ ~interrupted')
             => (single_run /\ pc \in {"single_check", "after_pass"})
         ]_vars

C20_Witness ==
    /\ pc = "after_pass"
    /\ single_run
    /\ round_number = 2
    /\ persistent_state.last_round_processed = 2
    /\ last_write = "processed"

\* C21: a single run that finds the current round already processed and
\* its closing time more than single_run_max_wait seconds away breaks out
\* of the loop at once: it does not enter wait_till_next_round, calls no
\* hook of a round and changes no state, and goes on to the shutdown.
C21_SingleRunBreaksWhenTooFar ==
    /\ [](/\ pc = "single_check"
             => /\ single_run
                /\ round_number = persistent_state.last_round_processed
          /\ (pc \in {"on_shutdown", "final_save"} /\ max_wait_exceeded)
             => /\ single_run
                /\ ~interrupted
                /\ report = None
                /\ \A i \in 1..Len(events) : events[i].ev = "on_shutdown")
    /\ [][/\ max_wait_exceeded' => (max_wait_exceeded \/ pc = "single_check")
          /\ (pc = "single_check" /\ max_wait_exceeded')
             => /\ pc' = "on_shutdown"
                /\ hi' = 1
                /\ events' = <<>>
                /\ persistent_state' = persistent_state
                /\ disk' = disk
                /\ files' = files
          /\ (pc \in {"on_shutdown", "final_save"} /\ max_wait_exceeded)
             => pc' \in {"on_shutdown", "final_save", "done", "failed"}
         ]_vars

C21_Witness ==
    /\ pc = "final_save"
    /\ max_wait_exceeded
    /\ Len(registered) = 2
    /\ events = Calls("on_shutdown", None)
    /\ persistent_state.last_round_processed = api_round

\* C22: wait_till_next_round goes on waiting while the service reports the
\* round number it read at its start, and the round it returns has a
\* number greater than that one.
C22_ReturnsGreaterRound ==
    /\ [](/\ pc \in {"w_wait", "w_poll"} => w_new = w_number
          /\ pc = "assign"
             => (round_info = w_new /\ round_info > w_number))
    /\ [][/\ (pc = "w_loop" /\ w_new = w_number)
             => pc' \in {"w_loop", "w_wait"}
          /\ pc \in {"w_loop", "w_wait", "w_poll"} => w_number' = w_number
          /\ pc' = "assign" => (pc = "w_loop" /\ w_new > w_number)
         ]_vars

C22_Witness ==
    /\ pc = "assign"
    /\ w_number = 1
    /\ round_info = 2
    /\ now > 500

\* C23: every iteration of wait_till_next_round takes the closing time
\* from the round details of the latest poll: when that time has changed
\* the change is logged, and the length of the next sleep and the time of
\* the coarse wake-up are computed from the new closing time.
C23_WaitFromLatestCloseTime ==
    /\ [](pc = "w_wait"
             => /\ dt_round_close = w_close
                /\ dt_round_close_atstart = w_close
                /\ seconds_wait = (w_close - now) + 5)
    /\ [][/\ (pc = "w_loop" /\ pc' = "w_wait")
             => delay_logged' = (w_close # dt_round_close)
          /\ (pc = "w_wait" /\ pc' = "w_poll")
             => now' = Max(now,
                           IF (w_close - now) + 5 > wakeup_time
                           THEN w_close - (wakeup_time - 5)
                           ELSE now + Min((w_close - now) + 5,
                                          round_wait_interval))
          /\ (pc = "w_poll" /\ pc' = "w_loop") => w_close' = api_close
         ]_vars

C23_Witness ==
    /\ pc = "w_poll"
    /\ delay_logged
    /\ dt_round_close = 620
    /\ dt_round_close = w_close
    /\ seconds_wait > wakeup_time
    /\ now = dt_round_close - (wakeup_time - 5)

\* C24: check_dataset on files that may be missing: when the new file is
\* missing it returns False, whether the old file is there or not; when
\* only the old file is missing it returns True.
C24_MissingFiles ==
    c_pc = "returned"
    => /\ ~filename_new.present => ~changed
       /\ (filename_new.present /\ ~filename_old.present) => changed

C24_Witness ==
    /\ c_pc = "returned"
    /\ ~filename_old.present
    /\ filename_new = File(Catalogue[1].tourn)
    /\ type_arg = "live"
    /\ changed

\* C25: for two files that are there, check_dataset returns False exactly
\* when the rows of the data type are the same rows in some order (True
\* when their number or a cell differs); the result is the same with the
\* two files exchanged, and the same for any old file with the same rows
\* of the data type.
C25_VerdictOnRows ==
    (c_pc = "returned" /\ filename_old.present /\ filename_new.present)
    => /\ changed = ~SameRows(filename_old, filename_new, type_arg)
       /\ changed = check_dataset(filename_new, filename_old, type_arg)
       /\ \A f \in DetectorFiles :
             (/\ f.present
              /\ FilterType(f.rows, type_arg)
                    = FilterType(filename_old.rows, type_arg))
             => check_dataset(f, filename_new, type_arg) = changed

C25_Witness ==
    /\ c_pc = "returned"
    /\ filename_old = File(Catalogue[1].tourn)
    /\ filename_new = File(<< Row(5, "live", 0) >>)
    /\ type_arg = "live"
    /\ ~changed

\* C26: load_state on a missing or an empty state file gives the state
\* with both fields None; on a stored dictionary it gives the stored
\* fields, with None for a field that is not stored; and load_state after
\* save_state gives the state that was saved.
C26_LoadToleratesAndRoundTrips ==
    /\ [](s_pc \in {"loaded", "reloaded"}
             => /\ DOMAIN persistent_state = StateFields
                /\ \A f \in StateFields :
                      persistent_state[f] \in FieldValues)
    /\ [][/\ (s_pc = "start" /\ s_pc' = "loaded")
             => /\ state_pickle \in {NoPickle, EmptyPickle}
                   => persistent_state' = DefaultState
                /\ state_pickle.kind = "pickle"
                   => \A f \in StateFields :
                         persistent_state'[f]
                            = IF f \in DOMAIN state_pickle.dict
                              THEN state_pickle.dict[f]
                              ELSE None
          /\ (s_pc = "saved" /\ s_pc' # "saved")
             => /\ s_pc' = "reloaded"
                /\ state_pickle = Dumped(persistent_state)
                /\ persistent_state' = persistent_state
         ]_vars

C26_Witness ==
    /\ s_pc = "reloaded"
    /\ state_pickle = Dumped(persistent_state)
    /\ persistent_state.last_round_processed = 1
    /\ persistent_state.last_round_trained = 2

\* C27: whatever calls of add_event_handler and remove_event_handler were
\* made, every handler in the list has a name that is not empty and no two
\* handlers in the list have the same name.
C27_Original ==
    /\ \A i \in 1..Len(event_handlers) : event_handlers[i] # ""
    /\ \A i, j \in 1..Len(event_handlers) :
          i # j => event_handlers[i] # event_handlers[j]

\* The handlers of a list whose name is one of two names, in list order.
Named(handlers, a, b) == SelectSeq(handlers, LAMBDA h : h \in {a, b})

\* C28: remove_event_handler(name) leaves no handler of that name in the
\* list, keeps every other handler, as often as it was there and in the
\* same order, and changes nothing when no handler has the name.
C28_RemoveKeepsOthers ==
    [][registry_call'.op = "remove_event_handler"
          => LET name == registry_call'.name
             IN  /\ \A i \in 1..Len(event_handlers') :
                       event_handlers'[i] # name
                 /\ \A a, b \in ScriptNames \ {name} :
                       Named(event_handlers', a, b)
                          = Named(event_handlers, a, b)
                 /\ (\A i \in 1..Len(event_handlers) :
                        event_handlers[i] # name)
                    => event_handlers' = event_handlers]_vars

C28_Witness ==
    /\ registry_call = RegistryCall("remove_event_handler", "B")
    /\ registered = << "A", "B", "C" >>
    /\ event_handlers = << "A", "C" >>

\* C29: while the hooks of a round are called the report is the one made
\* for that round before its first on_round_begin, and at every other
\* time, during on_start and on_shutdown too, the report is None.
C29_Original ==
    /\ pc \in DispatchPcs => report = round_number
    /\ pc \notin DispatchPcs => report = None

\* Positions at which the hooks of a round are called.
RoundHookPcs == {"on_round_begin", "on_new_training_data",
                 "on_new_tournament_data", "on_cleanup"}

\* C30: when a hook of a round raises, the exception leaves run(): the
\* process ends at once, so that no further handler is called for the event
\* and no further event of the round is dispatched (no on_shutdown
\* either), and the state file is left as it is: the failure does not set
\* last_round_processed.
C30_HookExceptionEndsRun ==
    /\ [](pc = "failed"
             => /\ events = <<>>
                /\ report = None
                /\ persistent_state = NotLoaded)
    /\ [][/\ (pc \in RoundHookPcs /\ fail' = "handler")
             => /\ pc' = "failed"
                /\ disk' = disk
                /\ last_write' = last_write
          /\ pc = "failed"
             => (pc' = "load_state" /\ disk' = disk /\ events' = <<>>)
         ]_vars

C30_Witness ==
    /\ pc = "failed"
    /\ fail = "handler"
    /\ open_round = 2
    /\ last_write = "trained"
    /\ disk.last_round_trained = 2
    /\ disk.last_round_processed = 1
    /\ Len(registered) = 2

\* C31: a RequestException of the download (the step of _download_and_check
\* that ends not valid although the dataset the service serves would pass
\* the check) is taken as a dataset that is not valid: the daemon goes to
\* the wait of invalid_dataset_waittime with no hook called and with
\* persistent_state, state.pickle and the dataset directories unchanged,
\* and from that wait it runs the download again, every time; the only
\* exception that leaves run() from the download is the RuntimeError of the
\* exhausted retry schedule.
C31_RequestExceptionIsInvalid ==
    [][/\ (/\ pc = "download"
           /\ pc' = "invalid_wait"
           /\ DatasetValid(Downloaded(files), round_number))
          => /\ ~valid'
             /\ files' = files
             /\ persistent_state' = persistent_state
             /\ round_number' = round_number
             /\ disk' = disk
             /\ events' = events
       /\ (pc = "invalid_wait" /\ ~interrupted')
          => (pc' = "download" /\ ~valid' /\ events' = events
              /\ persistent_state' = persistent_state /\ disk' = disk)
       /\ (pc = "download" /\ pc' = "failed")
          => (fail' = "RuntimeError" /\ disk' = disk)
       /\ (pc = "download" /\ fail' = "RuntimeError") => pc' = "failed"
      ]_vars

C31_Witness ==
    /\ pc = "invalid_wait"
    /\ ~valid
    /\ round_number = api_round
    /\ DatasetValid(Downloaded(files), round_number)

\* C32 (as claimed): in one run every pass of the loop processes a round
\* higher than the round of the pass before it (whose number is
\* last_round_processed when the pass begins), so that round_begin is
\* dispatched to the handlers at most once per round number.
C32_Original ==
    [][(/\ pc = "round_begin_internal"
        /\ pc' = "on_round_begin"
        /\ ret = "loop"
        /\ event_handlers # <<>>)
       => round_number > persistent_state.last_round_processed]_vars

\* C33: with a service whose round number never decreases, neither
\* last_round_processed nor last_round_trained ever decreases or goes back
\* to unset: not in the memory of a running daemon, not from one write of
\* state.pickle to the next, and not over a restart, where load_state
\* continues from the values of the file.
C33_FieldsNeverDecrease ==
    /\ [](\A f \in StateFields :
             (persistent_state # NotLoaded /\ pc # "load_state")
             => persistent_state[f] >= disk[f])
    /\ [][/\ api_round' >= api_round
          /\ disk.present => disk'.present
          /\ \A f \in StateFields :
                /\ disk'[f] >= disk[f]
                /\ disk[f] # None => disk'[f] # None
                /\ (persistent_state # NotLoaded
                    /\ persistent_state' # NotLoaded)
                   => /\ persistent_state'[f] >= persistent_state[f]
                      /\ persistent_state[f] # None
                         => persistent_state'[f] # None
                /\ (pc = "load_state" /\ pc' = "on_start")
                   => persistent_state'[f] = disk[f]
         ]_vars

\* The round processed first after a restart is on its way: the file holds
\* last_round_processed = 1 from an earlier run and last_round_trained = 2
\* from this one.
C33_Witness ==
    /\ ret = "catchup"
    /\ pc = "on_new_tournament_data"
    /\ last_write = "trained"
    /\ round_number = 2
    /\ disk.last_round_processed = 1
    /\ disk.last_round_trained = 2
    /\ persistent_state.last_round_trained = 2

\* C34: while on_new_tournament_data(N) is dispatched last_round_trained is
\* set and is not higher than N, a round without an earlier training having
\* been taken as new training data; and whenever last_round_processed is
\* set, in state.pickle or in the memory of the daemon, last_round_trained
\* is set too.
C34_TrainedSetBeforeTournament ==
    /\ pc = "on_new_tournament_data"
       => /\ persistent_state.last_round_trained # None
          /\ persistent_state.last_round_trained <= round_number
          /\ pass_lrt = None => verdict = "new"
          /\ verdict = "new"
             => (/\ persistent_state.last_round_trained = round_number
                 /\ disk.last_round_trained = round_number)
    /\ \A i \in 1..Len(events) :
          events[i].ev = "on_new_tournament_data"
          => (/\ persistent_state.last_round_trained # None
              /\ persistent_state.last_round_trained <= events[i].rnd)
    /\ Stored("last_round_processed") => Stored("last_round_trained")
    /\ (persistent_state # NotLoaded
        /\ persistent_state.last_round_processed # None)
       => persistent_state.last_round_trained # None

\* on_new_tournament_data(2) has been called on the first of two handlers
\* with the model trained in round 1.
C34_Witness ==
    /\ pc = "on_new_tournament_data"
    /\ hi = 2
    /\ Len(registered) = 2
    /\ round_number = 2
    /\ verdict = "same"
    /\ persistent_state.last_round_trained = 1
    /\ Stored("last_round_processed")

\* C35 (as claimed): in wait_till_next_round every sleep between the loop
\* test and the next query of the round details lasts longer than zero
\* seconds, also when the closing time the service reported has passed.
C35_Original ==
    [][(pc = "w_wait" /\ pc' = "w_poll") => now' > now]_vars

\* C36 (as claimed): a cancellation signal delivered at any position of
\* run() before the shutdown (during load_state, during the dispatch of
\* on_start, or inside the try block, the hooks of a round included) takes
\* the daemon to the dispatch of on_shutdown, which the final save_state
\* follows.
C36_Original ==
    [][(/\ pc \in {"load_state", "on_start"} \cup TryPcs
        /\ (interrupted' \/ fail' = "InterruptedException"))
       => (pc' = "on_shutdown" /\ hi' = 1 /\ fail' = "none")]_vars

====
